---- MODULE Spec2Model ----
(***************************************************************************)
(* Model of the crawl orchestration engine of pdf_crawler                  *)
(* (src/src/pdf_crawler/crawler.py): the frontier scheduler                *)
(* CrawlSession.run, the per-task coroutine CrawlSession._process, the     *)
(* robots.txt gate CrawlSession._is_allowed, the dual fetch                *)
(* CrawlSession._fetch_page, the selector, the extraction, the document    *)
(* registry self.downloaded and the lifetime of the rendering fetcher in   *)
(* crawl_async.  asyncio runs everything on one thread: a coroutine        *)
(* runs without interleaving from one await to the next, so every action   *)
(* below is the code between two suspension points.                        *)
(***************************************************************************)
EXTENDS Integers, Sequences, FiniteSets, TLC

\* ------------------------------------------------------------------ bounds
MaxConcurrency == 2
MaxDepth == 3

\* At most MaxFaults network operations of a run fail: a fetch that returns
\* None or raises, a robots.txt read that raises.
MaxFaults == 2

\* ------------------------------------------------------------- the web site
\* URLs are numbered; a site says what a successful fetch of each URL yields:
\* the output of _extract_links, the output of _extract_pdfs, the final URL
\* after redirects, the origin (scheme://netloc) and the robots.txt rules.
\* links and pdfs are those of the static HTML, rlinks and rpdfs those of the
\* rendered page; is_pdf holds the URLs answered with content type
\* application/pdf and needs_render the URLs whose static HTML the selector
\* sends to rendering.
NumUrls == 6
Urls == 1..NumUrls
Origins == {"http", "https"}
NetworkContext == "Detected via network request"

\* Site 1: two paths of different length lead to page 5, which links to 6.
\*   1 -> 2 -> 4 -> 5 -> 6     and     1 -> 3 -> 5 -> 6
\* Pages 2 and 3 both embed the document 6.
DiamondSite ==
  [seed     |-> 1,
   links    |-> [u \in Urls |-> CASE u = 1 -> <<2, 3>>
                                  [] u = 2 -> <<4>>
                                  [] u = 3 -> <<5>>
                                  [] u = 4 -> <<5>>
                                  [] u = 5 -> <<6>>
                                  [] OTHER -> <<>>],
   pdfs     |-> [u \in Urls |-> CASE u = 2 -> <<[url |-> 6, context |-> "from 2"]>>
                                  [] u = 3 -> <<[url |-> 6, context |-> "from 3"]>>
                                  [] OTHER -> <<>>],
   rlinks   |-> [u \in Urls |-> CASE u = 1 -> <<2, 3>>
                                  [] u = 2 -> <<4>>
                                  [] u = 3 -> <<5>>
                                  [] u = 4 -> <<5>>
                                  [] u = 5 -> <<6>>
                                  [] OTHER -> <<>>],
   rpdfs    |-> [u \in Urls |-> CASE u = 2 -> <<[url |-> 6, context |-> "from 2"]>>
                                  [] u = 3 -> <<[url |-> 6, context |-> NetworkContext]>>
                                  [] u = 6 -> <<[url |-> 6, context |-> NetworkContext]>>
                                  [] OTHER -> <<>>],
   is_pdf       |-> {6},
   needs_render |-> {3},
   final    |-> [u \in Urls |-> u],
   origin   |-> [u \in Urls |-> IF u = 5 THEN "https" ELSE "http"],
   disallow |-> {4}]

\* Site 2: a cycle 1 -> 2 -> 3 -> 1 with cross links; 2 redirects to 5;
\* pages 2 and 3 both link to the document 4, page 3 lists two documents;
\* the document 4 redirects to 6.  The rendered page 1 has one more link.
CycleSite ==
  [seed     |-> 1,
   links    |-> [u \in Urls |-> CASE u = 1 -> <<2, 3>>
                                  [] u = 2 -> <<3, 1, 4>>
                                  [] u = 3 -> <<2, 4, 1>>
                                  [] OTHER -> <<>>],
   pdfs     |-> [u \in Urls |-> CASE u = 2 -> <<[url |-> 4, context |-> "Report"]>>
                                  [] u = 3 -> <<[url |-> 6, context |-> "Annex"],
                                                [url |-> 4, context |-> "Annual"]>>
                                  [] OTHER -> <<>>],
   rlinks   |-> [u \in Urls |-> CASE u = 1 -> <<2, 3, 4>>
                                  [] u = 2 -> <<3, 1, 4>>
                                  [] u = 3 -> <<2, 4, 1>>
                                  [] OTHER -> <<>>],
   rpdfs    |-> [u \in Urls |-> CASE u = 2 -> <<[url |-> 4, context |-> "Report"]>>
                                  [] u = 3 -> <<[url |-> 6, context |-> "Annex"],
                                                [url |-> 4, context |-> "Annual"]>>
                                  [] u = 4 -> <<[url |-> 6, context |-> NetworkContext]>>
                                  [] OTHER -> <<>>],
   is_pdf       |-> {4},
   needs_render |-> {},
   final    |-> [u \in Urls |-> CASE u = 2 -> 5 [] u = 4 -> 6 [] OTHER -> u],
   origin   |-> [u \in Urls |-> "http"],
   disallow |-> {3}]

\* ------------------------------------------------------------ parsed markup
\* A URL or attribute value: kind says whether it is an absolute URL, a
\* relative reference, a mailto:/javascript: reference, an empty string or a
\* missing attribute; ext is the end of the path and frag says whether a
\* #fragment follows.
Ref(kind, host, path, ext, frag) ==
  [kind |-> kind, host |-> host, path |-> path, ext |-> ext, frag |-> frag]
NoAttr == Ref("absent", "", 0, "", FALSE)
EmptyAttr == Ref("empty", "", 0, "", FALSE)

\* Python truthiness of tag.get(name): None and "" are false.
Truthy(attr) == attr.kind \notin {"absent", "empty"}

\* An element of the parsed body, in document order.
Element(name, href, src, data, type, text, parent_text, marker) ==
  [name |-> name, href |-> href, src |-> src, data |-> data, type |-> type,
   text |-> text, parent_text |-> parent_text, marker |-> marker]

\* A <script> element; with_src says whether it carries a src attribute.
SeedHost == "example.com"
ScriptElement(with_src) ==
  Element("script", NoAttr,
          IF with_src THEN Ref("rel", "", 0, ".js", FALSE) ELSE NoAttr,
          NoAttr, "", "", "", "none")

\* FetchResult: final_url, detected_pdfs (the URLs it maps, in order) and the
\* parsed content: its elements other than scripts, the number of <script>
\* elements (all alike) and the length of its visible text.
FetchResult(final_url, detected_pdfs, elements, scripts, script_src, text_len) ==
  [final_url |-> final_url, detected_pdfs |-> detected_pdfs, elements |-> elements,
   scripts |-> scripts, script_src |-> script_src, text_len |-> text_len]

\* Every tag soup.find_all visits.
AllTags(result) ==
  {result.elements[n] : n \in DOMAIN result.elements}
    \cup (IF result.scripts > 0 THEN {ScriptElement(result.script_src)} ELSE {})

\* ------------------------------------------- CrawlSession._requires_playwright
ScriptLimit == 10
TextLimit == 200

\* As HasDetected with the test of detected_pdfs dropped.
HasDetected_never(result) == FALSE

\* `if result.detected_pdfs`
HasDetected(result) == result.detected_pdfs # <<>>

\* The filter handed to find_all: Python parses
\*   tag.name in {...} and tag.get("href") or tag.get("src")
\* as (tag.name in {...} and tag.get("href")) or tag.get("src").
StaticNavFilter(tag) ==
  (tag.name \in {"a", "iframe", "embed"} /\ Truthy(tag.href)) \/ Truthy(tag.src)

\* _requires_playwright(result)
RequiresPlaywright(result) ==
  IF HasDetected(result) THEN FALSE
  ELSE IF \E tag \in AllTags(result) : StaticNavFilter(tag) THEN FALSE
  ELSE IF result.scripts > ScriptLimit /\ result.text_len < TextLimit THEN TRUE
  ELSE IF \E tag \in AllTags(result) : tag.marker \in {"data-reactroot", "data-reactid"}
       THEN TRUE
  ELSE IF \E tag \in AllTags(result) : tag.marker \in {"ng-app", "id=app"} THEN TRUE
  ELSE FALSE

\* ------------------------------------------------------- URL helpers
\* urljoin(base_url, value) for a base that is an absolute URL.
UrlJoin(base, value) ==
  CASE value.kind = "rel"   -> Ref("abs", base.host, value.path, value.ext, value.frag)
    [] value.kind = "empty" -> base
    [] OTHER                -> value

\* _normalize: urldefrag drops the fragment.
Normalize(url) == [url EXCEPT !.frag = FALSE]

\* self.allowed_domains = {urlparse(config.url).netloc}
AllowedDomains == {SeedHost}

\* As IsSameDomain with every host allowed.
IsSameDomain_any(url) == TRUE

\* _is_same_domain
IsSameDomain(url) == url.host \in AllowedDomains

\* str.lower() on the end of the path.
LowerExt(ext) == IF ext = ".PDF" THEN ".pdf" ELSE ext

\* absolute.lower().endswith(".pdf")
EndsWithPdf(url) == LowerExt(url.ext) = ".pdf"

\* ------------------------------------------------ CrawlSession._extract_links
\* `href.startswith("mailto:") or href.startswith("javascript:")`
IsSkippedScheme(href) == href.kind \in {"mailto", "javascript"}

\* The loop over soup.find_all("a", href=True): seen is the list of the URLs
\* yielded so far.
RECURSIVE ExtractLinksFrom(_, _, _)
ExtractLinksFrom(elements, base_url, seen) ==
  IF elements = <<>> THEN seen
  ELSE LET tag == Head(elements)
       IN IF tag.name # "a" \/ tag.href.kind = "absent" \/ IsSkippedScheme(tag.href)
          THEN ExtractLinksFrom(Tail(elements), base_url, seen)
          ELSE LET absolute == Normalize(UrlJoin(base_url, tag.href))
               IN IF IsSameDomain(absolute) /\ \A n \in DOMAIN seen : seen[n] # absolute
                  THEN ExtractLinksFrom(Tail(elements), base_url, Append(seen, absolute))
                  ELSE ExtractLinksFrom(Tail(elements), base_url, seen)

\* _extract_links(result), as the list of the URLs it yields.
ExtractLinks(result) == ExtractLinksFrom(result.elements, result.final_url, <<>>)

\* ------------------------------------------------- CrawlSession._extract_pdfs
LongText == "long text"
LongTextHead == "long"

\* text[:200]
Truncate200(text) == IF text = LongText THEN LongTextHead ELSE text

\* _describe_context: the element's own text, else the parent's text cut to
\* 200 characters (find_parent always finds at least the document).
DescribeContext(tag) ==
  IF tag.text # "" THEN tag.text ELSE Truncate200(tag.parent_text)

\* A dict kept as the list of its items in insertion order.
HasKey(items, url) == \E n \in DOMAIN items : items[n].url = url

\* pdfs[url] = context
Put(items, url, context) ==
  IF HasKey(items, url)
  THEN [n \in DOMAIN items |->
          IF items[n].url = url THEN [url |-> url, context |-> context] ELSE items[n]]
  ELSE Append(items, [url |-> url, context |-> context])

\* As SetDefault with a plain assignment.
SetDefault_overwrite(items, url, context) == Put(items, url, context)

\* pdfs.setdefault(url, context)
SetDefault(items, url, context) ==
  IF HasKey(items, url) THEN items
  ELSE Append(items, [url |-> url, context |-> context])

\* `for url in result.detected_pdfs.values(): pdfs[url] = ...`
RECURSIVE PutDetected(_, _)
PutDetected(detected, items) ==
  IF detected = <<>> THEN items
  ELSE PutDetected(Tail(detected), Put(items, Head(detected), NetworkContext))

\* tag.get("href") or tag.get("src") or tag.get("data")
UrlAttr(tag) ==
  IF Truthy(tag.href) THEN tag.href
  ELSE IF Truthy(tag.src) THEN tag.src
  ELSE tag.data

\* The loop over soup.find_all(["a", "iframe", "embed", "object"]).
RECURSIVE ExtractPdfsFrom(_, _, _)
ExtractPdfsFrom(elements, base_url, items) ==
  IF elements = <<>> THEN items
  ELSE LET tag == Head(elements)
           url_attr == UrlAttr(tag)
       IN IF tag.name \notin {"a", "iframe", "embed", "object"} \/ ~Truthy(url_attr)
          THEN ExtractPdfsFrom(Tail(elements), base_url, items)
          ELSE LET absolute == Normalize(UrlJoin(base_url, url_attr))
               IN IF ~EndsWithPdf(absolute) /\ tag.type # "application/pdf"
                  THEN ExtractPdfsFrom(Tail(elements), base_url, items)
                  ELSE ExtractPdfsFrom(Tail(elements), base_url,
                                       SetDefault(items, absolute, DescribeContext(tag)))

\* _extract_pdfs(result): list(pdfs.items())
ExtractPdfs(result) ==
  ExtractPdfsFrom(result.elements, result.final_url,
                  PutDetected(result.detected_pdfs, <<>>))

\* --------------------------------------------------- the end-to-end scenario
\* The seed page of the scenario: <a href="/doc.pdf">Report</a> and
\* <a href="/next">Next</a>, nothing else.
ScenarioSeed ==
  FetchResult(Ref("abs", SeedHost, 1, "", FALSE), <<>>,
              <<Element("a", Ref("rel", "", 6, ".pdf", FALSE), NoAttr, NoAttr, "",
                        "Report", "", "none"),
                Element("a", Ref("rel", "", 2, "", FALSE), NoAttr, NoAttr, "",
                        "Next", "", "none")>>,
              0, FALSE, 0)

\* The number of a URL of the seed's host is its path.
UrlNumbers(urls) == [n \in DOMAIN urls |-> urls[n].path]
PdfNumbers(items) ==
  [n \in DOMAIN items |-> [url |-> items[n].url.path, context |-> items[n].context]]

\* Site 3: what _extract_links and _extract_pdfs make of the scenario's seed
\* page; /next (2) is a page without anchors, /doc.pdf (6) is a PDF response.
ScenarioSite ==
  [seed     |-> 1,
   links    |-> [u \in Urls |-> IF u = 1 THEN UrlNumbers(ExtractLinks(ScenarioSeed))
                                 ELSE <<>>],
   pdfs     |-> [u \in Urls |-> IF u = 1 THEN PdfNumbers(ExtractPdfs(ScenarioSeed))
                                 ELSE <<>>],
   rlinks   |-> [u \in Urls |-> IF u = 1 THEN UrlNumbers(ExtractLinks(ScenarioSeed))
                                 ELSE <<>>],
   rpdfs    |-> [u \in Urls |-> CASE u = 1 -> PdfNumbers(ExtractPdfs(ScenarioSeed))
                                  [] u = 6 -> <<[url |-> 6, context |-> NetworkContext]>>
                                  [] OTHER -> <<>>],
   is_pdf       |-> {6},
   needs_render |-> IF RequiresPlaywright(ScenarioSeed) THEN {1} ELSE {},
   final    |-> [u \in Urls |-> u],
   origin   |-> [u \in Urls |-> "http"],
   disallow |-> {}]

Sites == {DiamondSite, CycleSite, ScenarioSite}

\* ------------------------------------------------- a seed with a fragment
\* The sites whose URLs may carry a fragment number them so: path p without
\* fragment is p, path p with a fragment is p + FragShift.
FragShift == 3
UrlNumber(url) == IF url.frag THEN url.path + FragShift ELSE url.path
UrlOf(u) ==
  IF u > FragShift THEN Ref("abs", SeedHost, u - FragShift, "", TRUE)
  ELSE Ref("abs", SeedHost, u, "", FALSE)

\* Every page of these sites is the same navigation: <a href="/">Home</a>
\* and <a href="/next#intro">Next</a>, fetched under the URL final_url.
NavPage(final_url) ==
  FetchResult(final_url, <<>>,
              <<Element("a", Ref("rel", "", 1, "", FALSE), NoAttr, NoAttr, "",
                        "Home", "", "none"),
                Element("a", Ref("rel", "", 2, "", TRUE), NoAttr, NoAttr, "",
                        "Next", "", "none")>>,
              0, FALSE, 0)

\* The site crawled from config.url = seed: run queues config.url as given.
SeedSite(seed) ==
  [seed     |-> UrlNumber(seed),
   links    |-> [u \in Urls |->
                   [n \in DOMAIN ExtractLinks(NavPage(UrlOf(u))) |->
                      UrlNumber(ExtractLinks(NavPage(UrlOf(u)))[n])]],
   pdfs     |-> [u \in Urls |-> <<>>],
   rlinks   |-> [u \in Urls |->
                   [n \in DOMAIN ExtractLinks(NavPage(UrlOf(u))) |->
                      UrlNumber(ExtractLinks(NavPage(UrlOf(u)))[n])]],
   rpdfs    |-> [u \in Urls |-> <<>>],
   is_pdf       |-> {},
   needs_render |-> {},
   final    |-> [u \in Urls |-> u],
   origin   |-> [u \in Urls |-> "http"],
   disallow |-> {}]

\* The seed http://example.com/ given plainly and given as .../#top.
SeedSites ==
  {SeedSite(Ref("abs", SeedHost, 1, "", frag)) : frag \in BOOLEAN}

\* ------------------------------------------------------------------- state
VARIABLES
  site,               \* the web site being crawled (fixed during a run)
  concurrency,        \* config.concurrency
  max_depth,          \* config.max_depth
  respect_robots_txt, \* config.respect_robots_txt
  queue,              \* run: the deque of PageTask
  visited,            \* self.visited
  downloaded,         \* self.downloaded: dict url -> PDFDocument
  robots_cache,       \* self.robots_cache: dict origin -> parser or None
  tasks,              \* every asyncio task created by run, in creation order
  sem,                \* free permits of the asyncio.Semaphore
  pc,                 \* where the coroutine run is
  robots_reads,       \* history: number of rp.read() calls per origin
  persist_log,        \* history: the calls of storage.build_document
  fetcher,            \* the PlaywrightFetcher: _playwright, _browser_context, auth
  faults,             \* history: number of fetches and robots.txt reads that failed
  probe,              \* a FetchResult handed to the selector or to extraction
  answer              \* what the selector or the extraction returned for it

config == <<site, concurrency, max_depth, respect_robots_txt>>
vars == <<site, concurrency, max_depth, respect_robots_txt, queue, visited,
          downloaded, robots_cache, tasks, sem, pc, robots_reads, persist_log,
          fetcher, faults, probe, answer>>

\* The variables of the pure functions, which the scheduler leaves alone.
pure == <<probe, answer>>
NoProbe == [kind |-> "none"]
NoAnswer == [kind |-> "none"]

\* A PlaywrightFetcher: _playwright is "none" (None), "started" or "stopped",
\* _browser_context "none" (None), "open" or "closed"; auth says whether
\* config.auth is set.
Fetcher(playwright, context, auth) ==
  [playwright |-> playwright, context |-> context, auth |-> auth]

\* The fetcher CrawlSession.run works with: entered, without a login flow.
EnteredFetcher == Fetcher("started", "open", FALSE)

\* PageTask(url, depth)
PageTask(url, depth) == [url |-> url, depth |-> depth]

\* The set `tasks` of run: the tasks not yet returned in `done` by asyncio.wait.
InFlight == {i \in DOMAIN tasks : tasks[i].st # "reaped"}

\* CrawlSession.__init__ and the first lines of run, for a site of `sites`
\* and a concurrency limit of `limits`.
RunInit(sites, limits) ==
  /\ site \in sites
  /\ concurrency \in limits
  /\ max_depth \in 0..MaxDepth
  /\ respect_robots_txt \in BOOLEAN
  /\ queue = <<PageTask(site.seed, 0)>>
  /\ visited = {}
  /\ downloaded = <<>>
  /\ robots_cache = <<>>
  /\ tasks = <<>>
  /\ sem = concurrency
  /\ pc = "outer"
  /\ robots_reads = [o \in Origins |-> 0]
  /\ persist_log = <<>>
  /\ fetcher = EnteredFetcher
  /\ faults = 0
  /\ probe = NoProbe
  /\ answer = NoAnswer

Init == RunInit(Sites, 1..MaxConcurrency)

\* ------------------------------------------------- CrawlSession._is_allowed
\* dict.get(base): None both when the key is absent and when it maps to None.
RobotsGet(base) ==
  IF base \in DOMAIN robots_cache THEN robots_cache[base]
  ELSE [none |-> TRUE, disallow |-> {}]

\* What rp.read() can do: raise, or leave a parser that holds the site's
\* rules, denies everything (401/403) or allows everything (other 4xx).
ReadOutcomes == {"error", "rules", "deny_all", "allow_all"}

ParsedRules(rd) ==
  CASE rd = "rules"    -> site.disallow
    [] rd = "deny_all" -> Urls
    [] OTHER           -> {}

\* As CanFetch with the rules ignored.
CanFetch_always(robot, url) == TRUE

\* robot.can_fetch("UniversalPDFCrawler", url)
CanFetch(robot, url) == url \notin robot.disallow

\* As RespectRobots with the test of the flag dropped.
RespectRobots_always == TRUE

\* config.respect_robots_txt, as tested on entry of _is_allowed
RespectRobots == respect_robots_txt

\* _is_allowed(url) when rp.read() behaves as rd: the value returned, the
\* robots cache afterwards and the number of robots.txt fetches performed.
IsAllowed(url, rd) ==
  IF ~RespectRobots
  THEN [result |-> TRUE, cache |-> robots_cache, reads |-> 0]
  ELSE LET base  == site.origin[url]
           robot == RobotsGet(base)
       IN IF robot.none
          THEN IF rd = "error"
               THEN [result |-> TRUE,
                     cache  |-> (base :> [none |-> TRUE, disallow |-> {}]) @@ robots_cache,
                     reads  |-> 1]
               ELSE LET rp == [none |-> FALSE, disallow |-> ParsedRules(rd)]
                    IN [result |-> CanFetch(rp, url),
                        cache  |-> (base :> rp) @@ robots_cache,
                        reads  |-> 1]
          ELSE [result |-> CanFetch(robot, url), cache |-> robots_cache, reads |-> 0]

\* ------------------------------------------------------- CrawlSession.run
\* As LoopCond with the in-flight tasks forgotten.
LoopCond_queueOnly == queue # <<>>

\* `while queue or tasks`
LoopCond == queue # <<>> \/ InFlight # {}

\* As CanDispatch with an off-by-one limit test.
CanDispatch_inclusive == queue # <<>> /\ Cardinality(InFlight) <= concurrency

\* As CanDispatch without the concurrency limit.
CanDispatch_unbounded == queue # <<>>

\* `while queue and len(tasks) < self.config.concurrency`
CanDispatch == queue # <<>> /\ Cardinality(InFlight) < concurrency

\* As AlreadyVisited with the visited test dropped.
AlreadyVisited_never(url) == FALSE

\* `if task.url in self.visited: continue`
AlreadyVisited(url) == url \in visited

\* As StillPending with the done tasks kept in `tasks`.
StillPending_all(i) == TRUE

\* The pending set returned by asyncio.wait(tasks, FIRST_COMPLETED).
StillPending(i) == tasks[i].st # "done"

\* The outer loop test fails: run returns list(self.downloaded.values()).
Return ==
  /\ pc = "outer"
  /\ ~LoopCond
  /\ pc' = "done"
  /\ UNCHANGED <<config, pure, fetcher, faults, queue, visited, downloaded, robots_cache, tasks, sem,
                 robots_reads, persist_log>>

\* The outer loop test holds: enter the inner loop.
EnterLoop ==
  /\ pc = "outer"
  /\ LoopCond
  /\ pc' = "inner"
  /\ UNCHANGED <<config, pure, fetcher, faults, queue, visited, downloaded, robots_cache, tasks, sem,
                 robots_reads, persist_log>>

\* One iteration of the inner loop: popleft, then skip a visited URL or mark
\* it visited and create its asyncio task (which has not started running).
\* A task records its PageTask, its state (created, fetching, rendering,
\* done, reaped once asyncio.wait has returned it), how _process ended (res)
\* and, as history, the tasks returned by the same asyncio.wait (peers),
\* what let it pass _is_allowed (gate), what the static fetch returned
\* (static) and the rendering fetch (rendered), the number of rendering
\* fetches issued (renders) and the result handed to extraction (used).
Dispatch ==
  /\ pc = "inner"
  /\ CanDispatch
  /\ LET task == Head(queue)
     IN /\ queue' = Tail(queue)
        /\ IF AlreadyVisited(task.url)
           THEN UNCHANGED <<visited, tasks>>
           ELSE /\ visited' = visited \cup {task.url}
                /\ tasks' = Append(tasks, [url |-> task.url, depth |-> task.depth,
                                           st |-> "created", res |-> "none", peers |-> {},
                                           gate |-> "none", static |-> "pending",
                                           rendered |-> "pending", renders |-> 0,
                                           used |-> "none"])
  /\ UNCHANGED <<config, pure, fetcher, faults, downloaded, robots_cache, sem, pc, robots_reads, persist_log>>

\* The inner loop ends with tasks in flight: await asyncio.wait(...).
Await ==
  /\ pc = "inner"
  /\ ~CanDispatch
  /\ InFlight # {}
  /\ pc' = "wait"
  /\ UNCHANGED <<config, pure, fetcher, faults, queue, visited, downloaded, robots_cache, tasks, sem,
                 robots_reads, persist_log>>

\* The inner loop ends with no task in flight: await asyncio.sleep(0.1).
Sleep ==
  /\ pc = "inner"
  /\ ~CanDispatch
  /\ InFlight = {}
  /\ pc' = "sleep"
  /\ UNCHANGED <<config, pure, fetcher, faults, queue, visited, downloaded, robots_cache, tasks, sem,
                 robots_reads, persist_log>>

\* The sleep ends: back to the outer loop test.
SleepDone ==
  /\ pc = "sleep"
  /\ pc' = "outer"
  /\ UNCHANGED <<config, pure, fetcher, faults, queue, visited, downloaded, robots_cache, tasks, sem,
                 robots_reads, persist_log>>

\* asyncio.wait returns once a task is done: `done, tasks = ...` keeps the
\* tasks still pending; back to the outer loop test.  run drops the done
\* tasks: of their history only res, used and the tasks returned by the same
\* wait (peers) are kept.
Wake ==
  /\ pc = "wait"
  /\ \E i \in InFlight : tasks[i].st = "done"
  /\ tasks' = [i \in DOMAIN tasks |->
                 IF tasks[i].st # "reaped" /\ ~StillPending(i)
                 THEN [tasks[i] EXCEPT !.st = "reaped", !.gate = "none",
                                       !.static = "pending", !.rendered = "pending",
                                        !.renders = 0,
                                       !.peers = {j \in InFlight \ {i} : ~StillPending(j)}]
                 ELSE tasks[i]]
  /\ pc' = "outer"
  /\ UNCHANGED <<config, pure, fetcher, faults, queue, visited, downloaded, robots_cache, sem,
                 robots_reads, persist_log>>

\* ---------------------------------------------------- CrawlSession._process
\* storage.build_document(url, source_page, context) when it returns.
BuildDocument(url, source_page, context) ==
  [url |-> url, source_page |-> source_page, context |-> context]

\* As NotDownloaded with the registry test dropped.
NotDownloaded_always(dl, pdf_url) == TRUE

\* `if pdf_url not in self.downloaded`
NotDownloaded(dl, pdf_url) == pdf_url \notin DOMAIN dl

\* As StoreDocument with the exception of build_document ignored.
StoreDocument_always(dl, pdf_url, document, returned) == (pdf_url :> document) @@ dl

\* `try: document = build_document(...); self.downloaded[pdf_url] = document`
\* `except Exception: LOGGER.warning(...)`
StoreDocument(dl, pdf_url, document, returned) ==
  IF returned THEN (pdf_url :> document) @@ dl ELSE dl

\* The loop `for pdf_url, context in pdfs`: ok is the set of document URLs
\* whose build_document call returns (the others raise) and `by` the task
\* running the loop.  Yields the registry and the log of build_document
\* calls after the loop.
RECURSIVE RegisterPdfs(_, _, _, _, _, _)
RegisterPdfs(pdfs, dl, log, source_page, ok, by) ==
  IF pdfs = <<>> THEN [dl |-> dl, log |-> log]
  ELSE LET pdf == Head(pdfs)
       IN IF NotDownloaded(dl, pdf.url)
          THEN LET document == BuildDocument(pdf.url, source_page, pdf.context)
                   call     == [url |-> pdf.url, source_page |-> source_page,
                                context |-> pdf.context, ok |-> pdf.url \in ok,
                                by |-> by]
               IN RegisterPdfs(Tail(pdfs),
                               StoreDocument(dl, pdf.url, document, pdf.url \in ok),
                               Append(log, call), source_page, ok, by)
          ELSE RegisterPdfs(Tail(pdfs), dl, log, source_page, ok, by)

\* As ShouldExpand with an off-by-one depth test.
ShouldExpand_inclusive(depth) == depth <= max_depth

\* `if task.depth < self.config.max_depth`
ShouldExpand(depth) == depth < max_depth

\* As LinkIsNew with the visited test dropped.
LinkIsNew_always(link) == TRUE

\* `if link not in self.visited`
LinkIsNew(link) == link \notin visited

\* The PageTasks appended for the links of a page fetched at `depth`.
RECURSIVE NewTasks(_, _)
NewTasks(links, depth) ==
  IF links = <<>> THEN <<>>
  ELSE IF LinkIsNew(Head(links))
       THEN <<PageTask(Head(links), depth + 1)>> \o NewTasks(Tail(links), depth)
       ELSE NewTasks(Tail(links), depth)

\* The tasks suspended in the fetch of their page.
Fetching == {i \in DOMAIN tasks : tasks[i].st \in {"fetching", "rendering"}}

\* The event loop runs tasks only while the coroutine that created them is
\* suspended in an await: in run, or, once run has raised, in the awaits of
\* PlaywrightFetcher.__aexit__.
RunSuspended == pc \in {"wait", "sleep", "raised", "stop"}

\* A created task starts: it enters `async with sem`, runs _is_allowed and
\* either returns (disallowed) or suspends in the static fetch of its page.
TaskStart(i, rd) ==
  /\ RunSuspended
  /\ tasks[i].st = "created"
  /\ sem > 0
  /\ LET r    == IsAllowed(tasks[i].url, rd)
         base == site.origin[tasks[i].url]
         gate == IF ~respect_robots_txt THEN "off"
                 ELSE IF r.cache[base].none THEN "failopen" ELSE "rules"
         error == r.reads = 1 /\ rd = "error"
     IN /\ error => faults < MaxFaults
        /\ faults' = IF error THEN faults + 1 ELSE faults
        /\ robots_cache' = r.cache
        /\ robots_reads' = IF r.reads = 0 THEN robots_reads
                           ELSE [robots_reads EXCEPT ![base] = @ + r.reads]
        /\ IF r.result
           THEN /\ tasks' = [tasks EXCEPT ![i].st = "fetching", ![i].gate = gate]
                /\ sem' = sem - 1
           ELSE /\ tasks' = [tasks EXCEPT ![i].st = "done", ![i].res = "skipped",
                                          ![i].gate = gate]
                /\ sem' = sem
  /\ UNCHANGED <<config, pure, fetcher, queue, visited, downloaded, pc, persist_log>>

\* ------------------------------------------------- CrawlSession._fetch_page
\* What a fetch can do for the task: return a result, return None, raise.
FetchOutcomes == {"ok", "none", "raise"}

\* crawl_async always hands a PlaywrightFetcher to the session.
HasPlaywright == TRUE

\* _requires_playwright on the static result of url: a PDF response carries
\* detected_pdfs and never needs rendering.
NeedsRendering(url) == url \notin site.is_pdf /\ url \in site.needs_render

\* As SkipRendering with the selector forgotten.
SkipRendering_anyResult(static, url) == static = "ok"

\* `if result and not self._requires_playwright(result): return result`
SkipRendering(static, url) == static = "ok" /\ ~NeedsRendering(url)

\* As SourcePage with the requested URL in place of the final one.
SourcePage_requested(url) == url

\* result.final_url
SourcePage(url) == site.final[url]

\* _extract_pdfs on the result handed to extraction: StaticFetcher.fetch
\* answers a PDF response with detected_pdfs = {final: final} and no content.
ResultPdfs(url, used) ==
  IF used = "rendered" THEN site.rpdfs[url]
  ELSE IF url \in site.is_pdf
       THEN <<[url |-> SourcePage(url), context |-> NetworkContext]>>
       ELSE site.pdfs[url]

\* _extract_links on the result handed to extraction.
ResultLinks(url, used) ==
  IF used = "rendered" THEN site.rlinks[url]
  ELSE IF url \in site.is_pdf THEN <<>> ELSE site.links[url]

\* _process after _fetch_page has returned `used` (never suspends again):
\* documents are registered, links are appended to the queue, the semaphore
\* is released and the task is done.  static and rendered are what the two
\* fetches gave ("pending" for a fetch that was not made).
Complete(i, static, rendered, used, ok) ==
  /\ sem' = sem + 1
  /\ IF used = "none"
     THEN /\ tasks' = [tasks EXCEPT ![i].st = "done", ![i].res = "failed",
                                    ![i].static = static, ![i].rendered = rendered]
          /\ UNCHANGED <<downloaded, persist_log, queue>>
     ELSE LET url == tasks[i].url
              reg == RegisterPdfs(ResultPdfs(url, used), downloaded, persist_log,
                                  SourcePage(url), ok, i)
          IN /\ downloaded' = reg.dl
             /\ persist_log' = reg.log
             /\ queue' = IF ShouldExpand(tasks[i].depth)
                         THEN queue \o NewTasks(ResultLinks(url, used), tasks[i].depth)
                         ELSE queue
             /\ tasks' = [tasks EXCEPT ![i].st = "done", ![i].res = "expanded",
                                       ![i].static = static, ![i].rendered = rendered,
                                       ![i].used = used]

\* The exception of a fetch leaves _process: the semaphore is released and
\* the task is done, holding the exception.
Raise(i, static, rendered) ==
  /\ sem' = sem + 1
  /\ tasks' = [tasks EXCEPT ![i].st = "done", ![i].res = "raised",
                            ![i].static = static, ![i].rendered = rendered]
  /\ UNCHANGED <<downloaded, persist_log, queue>>

\* The static fetch of a task ends.  Its result is returned to _process, or
\* the task suspends in the rendering fetch.
StaticDone(i, outcome, ok) ==
  /\ RunSuspended
  /\ outcome # "ok" => faults < MaxFaults
  /\ faults' = IF outcome = "ok" THEN faults ELSE faults + 1
  /\ tasks[i].st = "fetching"
  /\ LET url == tasks[i].url
     IN IF outcome = "raise" THEN Raise(i, outcome, "pending")
        ELSE IF SkipRendering(outcome, url)
        THEN Complete(i, outcome, "pending", "static", ok)
        ELSE IF HasPlaywright /\ fetcher.context = "open"
        THEN /\ tasks' = [tasks EXCEPT ![i].st = "rendering", ![i].static = outcome,
                                       ![i].renders = @ + 1]
             /\ UNCHANGED <<sem, downloaded, persist_log, queue>>
        ELSE IF HasPlaywright
        THEN Raise(i, outcome, "raise")
        ELSE Complete(i, outcome, "pending", IF outcome = "ok" THEN "static" ELSE "none", ok)
  /\ UNCHANGED <<config, pure, fetcher, visited, robots_cache, pc, robots_reads>>

\* The rendering fetch of a task ends: its result is handed to extraction,
\* or the static result when it returned None.
RenderDone(i, outcome, ok) ==
  /\ RunSuspended
  /\ outcome # "ok" => faults < MaxFaults
  /\ faults' = IF outcome = "ok" THEN faults ELSE faults + 1
  /\ tasks[i].st = "rendering"
  /\ IF outcome = "raise" THEN Raise(i, tasks[i].static, outcome)
     ELSE IF outcome = "ok" THEN Complete(i, tasks[i].static, outcome, "rendered", ok)
     ELSE Complete(i, tasks[i].static, outcome,
                   IF tasks[i].static = "ok" THEN "static" ELSE "none", ok)
  /\ UNCHANGED <<config, pure, fetcher, visited, robots_cache, pc, robots_reads>>

\* The links and the document URLs of the result a task handed to extraction.
LinksOf(url) == {site.links[url][n] : n \in DOMAIN site.links[url]}
TaskLinks(i) ==
  LET links == ResultLinks(tasks[i].url, tasks[i].used)
  IN {links[n] : n \in DOMAIN links}
TaskPdfUrls(i) ==
  LET pdfs == ResultPdfs(tasks[i].url, tasks[i].used)
  IN {pdfs[n].url : n \in DOMAIN pdfs}

\* The document URLs _extract_pdfs can yield for a page.
PdfUrls(url) ==
  {site.pdfs[url][k].url : k \in DOMAIN site.pdfs[url]}
    \cup {site.rpdfs[url][k].url : k \in DOMAIN site.rpdfs[url]}
    \cup (IF url \in site.is_pdf THEN {SourcePage(url)} ELSE {})

Next ==
  \/ Return
  \/ EnterLoop
  \/ Dispatch
  \/ Await
  \/ Sleep
  \/ SleepDone
  \/ Wake
  \/ \E i \in DOMAIN tasks, rd \in ReadOutcomes : TaskStart(i, rd)
  \/ \E i \in DOMAIN tasks, outcome \in FetchOutcomes :
       \E ok \in SUBSET PdfUrls(tasks[i].url) : StaticDone(i, outcome, ok)
  \/ \E i \in DOMAIN tasks, outcome \in FetchOutcomes :
       \E ok \in SUBSET PdfUrls(tasks[i].url) : RenderDone(i, outcome, ok)

Spec == Init /\ [][Next]_vars

\* run for every limit CrawlConfig accepts and asyncio.Semaphore takes, the
\* limit 0 included (neither cli.py nor CrawlConfig validates it).
AnyLimitInit == RunInit({CycleSite, ScenarioSite}, 0..MaxConcurrency)

AnyLimitSpec == AnyLimitInit /\ [][Next]_vars

AnyLimitLiveSpec == AnyLimitSpec /\ WF_vars(Next)

\* run on the sites whose seed may carry a fragment.
SeedInit == RunInit(SeedSites, 1..MaxConcurrency)

SeedSpec == SeedInit /\ [][Next]_vars

\* Every ready callback of the event loop is run and every fetch ends.
LiveSpec == Spec /\ WF_vars(Next)

\* ------------------------------------------- crawl_async, playwright_fetcher
\* What the steps of the session leave alone.
crawl == <<queue, visited, downloaded, robots_cache, tasks, sem, robots_reads,
           persist_log, faults>>

\* crawl_async is called: nothing is started, the seed is all run will know.
SessionInit ==
  /\ site = CycleSite
  /\ concurrency \in 1..MaxConcurrency
  /\ max_depth \in 0..MaxDepth
  /\ respect_robots_txt = FALSE
  /\ queue = <<PageTask(site.seed, 0)>>
  /\ visited = {}
  /\ downloaded = <<>>
  /\ robots_cache = <<>>
  /\ tasks = <<>>
  /\ sem = concurrency
  /\ pc = "enter"
  /\ robots_reads = [o \in Origins |-> 0]
  /\ persist_log = <<>>
  /\ fetcher \in {Fetcher("none", "none", auth) : auth \in BOOLEAN}
  /\ faults = 0
  /\ probe = NoProbe
  /\ answer = NoAnswer

\* __aenter__: `self._playwright = await async_playwright().start()`.  The
\* call is made outside the try of playwright_fetcher: when it raises,
\* crawl_async raises and __aexit__ is never called.
StartPlaywright(ok) ==
  /\ pc = "enter"
  /\ IF ok
     THEN /\ fetcher' = [fetcher EXCEPT !.playwright = "started"]
          /\ pc' = "launch"
     ELSE /\ pc' = "over"
          /\ UNCHANGED fetcher
  /\ UNCHANGED <<config, pure, crawl>>

\* __aenter__: chromium.launch and browser.new_context.
Launch(ok) ==
  /\ pc = "launch"
  /\ IF ok
     THEN /\ fetcher' = [fetcher EXCEPT !.context = "open"]
          /\ pc' = IF fetcher.auth THEN "login" ELSE "construct"
     ELSE /\ pc' = "over"
          /\ UNCHANGED fetcher
  /\ UNCHANGED <<config, pure, crawl>>

\* __aenter__: `if self.auth: await self._perform_login(self.auth)`.
Login(ok) ==
  /\ pc = "login"
  /\ pc' = IF ok THEN "construct" ELSE "over"
  /\ UNCHANGED <<config, pure, crawl, fetcher>>

\* The body of the `async with`: CrawlSession(config, static, playwright),
\* whose PDFStorage(config.output_dir) can raise, then session.run().
Construct(ok) ==
  /\ pc = "construct"
  /\ pc' = IF ok THEN "outer" ELSE "raised"
  /\ UNCHANGED <<config, pure, crawl, fetcher>>

\* run is cancelled in one of its awaits; the tasks it created have all been
\* started by then and stay in the event loop.
Cancel ==
  /\ pc \in {"wait", "sleep"}
  /\ \A i \in DOMAIN tasks : tasks[i].st # "created"
  /\ pc' = "raised"
  /\ UNCHANGED <<config, pure, crawl, fetcher>>

\* The finally of playwright_fetcher, __aexit__: `await
\* self._browser_context.close()`.
CloseContext ==
  /\ pc \in {"done", "raised"}
  /\ fetcher' = [fetcher EXCEPT !.context = "closed"]
  /\ pc' = "stop"
  /\ UNCHANGED <<config, pure, crawl>>

\* __aexit__: `await self._playwright.stop()`; crawl_async is over.
StopPlaywright ==
  /\ pc = "stop"
  /\ fetcher' = [fetcher EXCEPT !.playwright = "stopped"]
  /\ pc' = "over"
  /\ UNCHANGED <<config, pure, crawl>>

SessionNext ==
  \/ \E ok \in BOOLEAN : StartPlaywright(ok)
  \/ \E ok \in BOOLEAN : Launch(ok)
  \/ \E ok \in BOOLEAN : Login(ok)
  \/ \E ok \in BOOLEAN : Construct(ok)
  \/ Cancel
  \/ CloseContext
  \/ StopPlaywright
  \/ Next

SessionSpec == SessionInit /\ [][SessionNext]_vars

\* Every await of crawl_async ends and every ready callback is run.
SessionLiveSpec == SessionSpec /\ WF_vars(SessionNext)

\* --------------------------------------------- the selector on its own
MaxSelectorElements == 1

\* All scheduler variables, and the scheduler at rest.
sched == <<site, concurrency, max_depth, respect_robots_txt, queue, visited,
           downloaded, robots_cache, tasks, sem, pc, robots_reads, persist_log,
           fetcher, faults>>
Idle ==
  /\ site = DiamondSite
  /\ concurrency = 1
  /\ max_depth = 0
  /\ respect_robots_txt = FALSE
  /\ queue = <<>>
  /\ visited = {}
  /\ downloaded = <<>>
  /\ robots_cache = <<>>
  /\ tasks = <<>>
  /\ sem = 1
  /\ pc = "idle"
  /\ fetcher = EnteredFetcher
  /\ faults = 0
  /\ robots_reads = [o \in Origins |-> 0]
  /\ persist_log = <<>>

SeqsUpTo(S, n) == UNION {[1..k -> S] : k \in 0..n}

\* The static results the selector is tried on.
NavRef == Ref("rel", "", 2, "", FALSE)
Markers == {"none", "data-reactroot", "data-reactid", "ng-app", "id=app"}
SelectorElements ==
  {Element(name, href, src, NoAttr, "", "", "", marker) :
     name \in {"a", "iframe", "embed", "img", "div"},
     href \in {NoAttr, NavRef}, src \in {NoAttr, NavRef}, marker \in Markers}
SelectorResults ==
  {FetchResult(1, detected, elements, scripts, script_src, text_len) :
     detected \in {<<>>, <<1>>},
     elements \in SeqsUpTo(SelectorElements, MaxSelectorElements),
     scripts \in {0, ScriptLimit, ScriptLimit + 1},
     script_src \in BOOLEAN,
     text_len \in {0, TextLimit - 1, TextLimit}}

SelectorInit ==
  /\ Idle
  /\ probe \in SelectorResults
  /\ answer = NoAnswer

\* _fetch_page asks the selector about the static result.
Classify ==
  /\ answer = NoAnswer
  /\ answer' = [kind |-> "selector", value |-> RequiresPlaywright(probe)]
  /\ UNCHANGED <<sched, probe>>

SelectorNext == Classify

SelectorSpec == SelectorInit /\ [][SelectorNext]_vars

\* ------------------------------------------- the extraction on its own
MaxExtractElements == 3

PageUrl(path) == Ref("abs", SeedHost, path, "", FALSE)
DocUrl == Ref("abs", SeedHost, 6, ".pdf", FALSE)
ExtractRefs ==
  {Ref("rel", "", 6, ".pdf", FALSE),              \* /doc.pdf
   Ref("abs", SeedHost, 6, ".pdf", TRUE),         \* the same document, #page=2
   Ref("abs", "cdn.example.org", 6, ".PDF", FALSE),
   Ref("rel", "", 2, "", FALSE)}                  \* /next

\* The elements the extraction is tried on.
ExtractElements ==
  {Element("a", ref, NoAttr, NoAttr, "", "Report", LongText, "none") : ref \in ExtractRefs}
  \cup {Element("embed", NoAttr, ref, NoAttr, "", "", LongText, "none") : ref \in ExtractRefs}
  \cup {Element("object", NoAttr, NoAttr, ref, type, "Annual", "", "none") :
          ref \in {Ref("rel", "", 6, ".pdf", FALSE), Ref("rel", "", 2, "", FALSE)},
          type \in {"", "application/pdf"}}
  \cup {Element("a", Ref("mailto", "", 0, ".pdf", FALSE), NoAttr, NoAttr, "", "Mail", "", "none"),
        Element("iframe", EmptyAttr, Ref("rel", "", 6, ".pdf", FALSE), NoAttr, "", "", "", "none")}

ExtractResults ==
  {FetchResult(PageUrl(1), detected, elements, 0, FALSE, 0) :
     detected \in {<<>>, <<DocUrl>>},
     elements \in SeqsUpTo(ExtractElements, MaxExtractElements)}

ExtractInit ==
  /\ Idle
  /\ probe \in ExtractResults
  /\ answer = NoAnswer

\* _process hands the result to _extract_pdfs and _extract_links.
Extract ==
  /\ answer = NoAnswer
  /\ answer' = [kind |-> "extract", pdfs |-> ExtractPdfs(probe), links |-> ExtractLinks(probe)]
  /\ UNCHANGED <<sched, probe>>

ExtractNext == Extract

ExtractSpec == ExtractInit /\ [][ExtractNext]_vars

\* ------------------------------------------- _extract_links on its own
MaxLinkElements == 3

\* href values: /next, the same page with a fragment, a subdomain, the two
\* skipped schemes, href="" and no href at all.
LinkRefs ==
  {Ref("rel", "", 2, "", FALSE),
   Ref("abs", SeedHost, 2, "", TRUE),
   Ref("abs", "docs.example.com", 2, "", FALSE),
   Ref("mailto", "", 0, "", FALSE),
   Ref("javascript", "", 0, "", FALSE),
   EmptyAttr,
   NoAttr}

\* Anchors with these href values and an <area> that carries an href.
LinkElements ==
  {Element("a", ref, NoAttr, NoAttr, "", "Link", "", "none") : ref \in LinkRefs}
  \cup {Element("area", Ref("rel", "", 3, "", FALSE), NoAttr, NoAttr, "", "", "", "none")}

\* The final URL: the seed's host, with or without a fragment, or the host a
\* redirect led to.
LinkFinals ==
  {Ref("abs", SeedHost, 1, "", FALSE),
   Ref("abs", SeedHost, 1, "", TRUE),
   Ref("abs", "other.example.org", 1, "", FALSE)}

LinkResults ==
  {FetchResult(final_url, <<>>, elements, 0, FALSE, 0) :
     final_url \in LinkFinals,
     elements \in SeqsUpTo(LinkElements, MaxLinkElements)}

LinkInit ==
  /\ Idle
  /\ probe \in LinkResults
  /\ answer = NoAnswer

LinkSpec == LinkInit /\ [][ExtractNext]_vars

\* ------------------------------------------------------------- properties
\* The URLs handed to _process so far.
Dispatched == {tasks[i].url : i \in DOMAIN tasks}

\* The URLs whose page was allowed and fetched successfully.
Expanded == {tasks[i].url : i \in {j \in DOMAIN tasks : tasks[j].res = "expanded"}}

\* The URLs on a chain of at most k links from the seed through expanded pages.
RECURSIVE ReachWithin(_)
ReachWithin(k) ==
  IF k = 0 THEN {site.seed}
  ELSE LET R == ReachWithin(k - 1)
       IN R \cup UNION {TaskLinks(i) : i \in {j \in DOMAIN tasks :
                                   tasks[j].res = "expanded" /\ tasks[j].url \in R}}

QueueUrls == {queue[n].url : n \in DOMAIN queue}

\* C1: no URL is dispatched to _process more than once, and the URL of every
\* task is in the visited set from the moment the task is created.
C1_DispatchedOnce ==
  /\ \A i, j \in DOMAIN tasks : tasks[i].url = tasks[j].url => i = j
  /\ \A i \in DOMAIN tasks : tasks[i].url \in visited

\* A URL found by two pages whose fetches were in flight together was queued
\* twice: one copy has been dispatched, the other is still in the queue.
C1_Witness ==
  \E i, a, b \in DOMAIN tasks :
    /\ tasks[i].st = "created"
    /\ tasks[i].url \in QueueUrls
    /\ tasks[a].res = "expanded" /\ tasks[b].res = "expanded"
    /\ b \in tasks[a].peers
    /\ tasks[i].url \in TaskLinks(a) \cap TaskLinks(b)

\* C2 as stated: when run returns, every URL within max_depth links of the
\* seed through expanded pages has been dispatched.
C2_Coverage == pc = "done" => ReachWithin(max_depth) \subseteq Dispatched

\* C3: no queued task and no dispatched task is deeper than max_depth.
C3_DepthBound ==
  /\ \A n \in DOMAIN queue : queue[n].depth <= max_depth
  /\ \A i \in DOMAIN tasks : tasks[i].depth <= max_depth

\* A page at depth max_depth >= 1 was fetched successfully and has a link
\* that was never visited.
C3_Witness ==
  \E i \in DOMAIN tasks :
    /\ max_depth >= 1
    /\ tasks[i].depth = max_depth
    /\ tasks[i].res = "expanded"
    /\ \E link \in TaskLinks(i) : link \notin visited

\* C4: the tasks dispatched and not yet completed never exceed the limit.
C4_ConcurrencyBound ==
  Cardinality({i \in DOMAIN tasks : tasks[i].st \in {"created", "fetching", "rendering"}})
    <= concurrency

\* The limit is reached by unfinished tasks while more tasks wait in the queue.
C4_Witness ==
  /\ Cardinality(Fetching) = concurrency
  /\ Len(queue) >= 2

\* C5: under LiveSpec (every fetch ends, every ready step is run) run returns.
C5_Termination == <>(pc = "done")

\* run has returned after as many failures as a run can have, among them a
\* page whose fetches all returned None.
C5_Witness ==
  /\ pc = "done"
  /\ faults = MaxFaults
  /\ \E i \in DOMAIN tasks : tasks[i].res = "failed"

\* C6: run returns only with an empty queue and no task in flight, and no
\* task appended by a completion is lost: every link of a page expanded below
\* max_depth has been dequeued and dispatched (or skipped as visited).
C6_ReturnsWhenDrained ==
  pc = "done" =>
    /\ queue = <<>>
    /\ InFlight = {}
    /\ \A i \in DOMAIN tasks :
         (tasks[i].res = "expanded" /\ tasks[i].depth < max_depth)
           => TaskLinks(i) \subseteq visited

\* With one task at a time every completion is the last one in flight; run
\* has returned after following links enqueued by such completions.
C6_Witness ==
  /\ pc = "done"
  /\ concurrency = 1
  /\ \E i \in DOMAIN tasks : tasks[i].depth >= 2

\* The build_document calls for document d that returned.
OkCalls(d) == {n \in DOMAIN persist_log : persist_log[n].url = d /\ persist_log[n].ok}

MinOf(S) == CHOOSE n \in S : \A m \in S : n <= m

\* C7: the registry holds one entry per document URL, keyed by the entry's
\* own url; the entry of d is the document of the first completion whose
\* registration of d took place, and no later discovery of d replaces it,
\* alters it or persists d again.  (No entry exists while no persist of d
\* has returned.)
C7_FirstWriterWins ==
  /\ \A k \in DOMAIN downloaded : downloaded[k].url = k
  /\ \A d \in Urls :
       IF OkCalls(d) = {} THEN d \notin DOMAIN downloaded
       ELSE LET first == persist_log[MinOf(OkCalls(d))]
            IN /\ d \in DOMAIN downloaded
               /\ downloaded[d] = BuildDocument(d, first.source_page, first.context)
               /\ \A n \in DOMAIN persist_log :
                    persist_log[n].url = d => n <= MinOf(OkCalls(d))

\* Two pages with different source URLs that both list document d were in
\* flight together and both completed; the first call for d returned and d
\* is registered.
C7_Witness ==
  \E a, b \in DOMAIN tasks, d \in Urls :
    /\ tasks[a].res = "expanded" /\ tasks[b].res = "expanded"
    /\ b \in tasks[a].peers
    /\ d \in TaskPdfUrls(a) \cap TaskPdfUrls(b)
    /\ site.final[tasks[a].url] # site.final[tasks[b].url]
    /\ d \in DOMAIN downloaded
    /\ \E n \in DOMAIN persist_log :
         /\ persist_log[n].url = d /\ persist_log[n].ok
         /\ persist_log[n].source_page = site.final[tasks[a].url]

\* C8 as stated: build_document is called at most once per document URL.
C8_PersistOnce ==
  \A m, n \in DOMAIN persist_log : persist_log[m].url = persist_log[n].url => m = n

\* C9 as stated: robots.txt is fetched at most once per origin.
C9_RobotsFetchedOnce == \A o \in Origins : robots_reads[o] <= 1

\* C10: with respect_robots_txt = false, _is_allowed returns true for every
\* URL in every state, fetches no robots.txt and leaves the cache unchanged.
C10_RobotsDisabled ==
  ~respect_robots_txt =>
    /\ \A u \in Urls, rd \in ReadOutcomes :
         IsAllowed(u, rd) = [result |-> TRUE, cache |-> robots_cache, reads |-> 0]
    /\ \A o \in Origins : robots_reads[o] = 0
    /\ DOMAIN robots_cache = {}
    /\ \A i \in DOMAIN tasks : tasks[i].res # "skipped"

\* Robots are ignored and _is_allowed has been called for URLs of two origins.
C10_Witness ==
  /\ ~respect_robots_txt
  /\ \E i, j \in DOMAIN tasks :
       /\ tasks[i].st \in {"fetching", "rendering", "done"}
       /\ tasks[j].st \in {"fetching", "rendering", "done"}
       /\ site.origin[tasks[i].url] # site.origin[tasks[j].url]
\* C11 as stated: a static result with more than 10 scripts, fewer than 200
\* characters of text, no observed documents and no a/iframe/embed element
\* carrying href or src needs rendering, whatever the other elements carry.
C11_ScriptShellNeedsRendering ==
  (/\ answer.kind = "selector"
   /\ probe.scripts > ScriptLimit
   /\ probe.text_len < TextLimit
   /\ probe.detected_pdfs = <<>>
   /\ \A n \in DOMAIN probe.elements :
        probe.elements[n].name \in {"a", "iframe", "embed"}
          => (probe.elements[n].href = NoAttr /\ probe.elements[n].src = NoAttr))
  => answer.value = TRUE

\* C12: a static result with observed documents never needs rendering.
C12_DetectedNeverRenders ==
  (answer.kind = "selector" /\ probe.detected_pdfs # <<>>) => answer.value = FALSE

\* The selector has answered for a result with observed documents whose body
\* is a script shell with a framework marker and no href or src anywhere.
C12_Witness ==
  /\ answer.kind = "selector"
  /\ probe.detected_pdfs # <<>>
  /\ probe.scripts > ScriptLimit /\ probe.text_len < TextLimit /\ ~probe.script_src
  /\ probe.elements # <<>>
  /\ \A n \in DOMAIN probe.elements :
       /\ probe.elements[n].href = NoAttr /\ probe.elements[n].src = NoAttr
       /\ probe.elements[n].marker = "data-reactroot"

\* Every fetch, robots check and persist of the run so far went well.
AllSucceeded ==
  /\ faults = 0
  /\ \A n \in DOMAIN persist_log : persist_log[n].ok
  /\ \A i \in DOMAIN tasks : tasks[i].res # "skipped"

\* The tasks of depth d whose page was fetched.
FetchedAt(d) ==
  {i \in DOMAIN tasks : tasks[i].depth = d /\ tasks[i].res \in {"expanded", "failed", "raised"}}

\* C13 as stated: on the scenario site with max_depth = 1 and no failure, the
\* crawl ends with exactly one persisted document, of context "Report", and
\* with exactly one page besides the seed fetched at depth 1.
C13_Scenario ==
  (site = ScenarioSite /\ max_depth = 1 /\ pc = "done" /\ AllSucceeded) =>
    /\ Cardinality(DOMAIN downloaded) = 1
    /\ \A u \in DOMAIN downloaded : downloaded[u].context = "Report"
    /\ Len(persist_log) = 1
    /\ Cardinality(FetchedAt(1)) = 1

\* The build_document calls made by task i.
CallsBy(i) == {n \in DOMAIN persist_log : persist_log[n].by = i}

\* The tasks whose static fetch was answered with content type application/pdf
\* (until the task is reaped, and after that while its result is remembered).
PdfAnswered(i) ==
  /\ tasks[i].url \in site.is_pdf
  /\ \/ tasks[i].static = "ok"
     \/ (tasks[i].res = "expanded" /\ tasks[i].used = "static")

\* C14: a task whose static fetch is answered with a PDF response never
\* enters the rendering fetch and hands the static result to extraction; it
\* calls build_document at most once, for the final URL as document URL and
\* as source page, exactly when that URL was not registered; a call that
\* succeeds registers that document.
C14_PdfResponse ==
  \A i \in DOMAIN tasks :
    PdfAnswered(i) =>
      LET final == site.final[tasks[i].url]
      IN /\ tasks[i].renders = 0
         /\ tasks[i].st # "rendering"
         /\ tasks[i].used = "static"
         /\ Cardinality(CallsBy(i)) <= 1
         /\ \A n \in CallsBy(i) :
              /\ persist_log[n].url = final
              /\ persist_log[n].source_page = final
              /\ persist_log[n].context = NetworkContext
              /\ \A m \in 1..(n - 1) : ~(persist_log[m].url = final /\ persist_log[m].ok)
              /\ persist_log[n].ok =>
                   /\ final \in DOMAIN downloaded
                   /\ downloaded[final] = BuildDocument(final, final, NetworkContext)
         /\ CallsBy(i) = {} => final \in DOMAIN downloaded

\* A PDF response that was redirected has been registered under its final URL.
C14_Witness ==
  \E i \in DOMAIN tasks :
    /\ PdfAnswered(i)
    /\ site.final[tasks[i].url] # tasks[i].url
    /\ \E n \in CallsBy(i) : persist_log[n].ok

\* The tasks whose fetches are remembered: started and not yet reaped.
Live == {i \in DOMAIN tasks : tasks[i].st \in {"fetching", "rendering", "done"}}

\* C19: per task the static fetch comes first; the rendering fetch is made, at
\* most once, exactly when the static fetch returned None or the selector
\* sends its result to rendering; extraction receives the rendering result
\* when that fetch returned one, else the static result; a task whose two
\* fetches returned None is Failed, and a fetch that raises hands nothing on.
C19_DualFetch ==
  \A i \in Live :
    LET t == tasks[i]
        attempted == t.st = "rendering" \/ t.rendered # "pending"
    IN /\ t.renders <= 1
       /\ attempted <=> t.renders = 1
       /\ t.st = "fetching" => (t.static = "pending" /\ ~attempted)
       /\ attempted => t.static \in {"ok", "none"}
       /\ t.static # "pending" =>
            (attempted <=> (t.static = "none" \/ (t.static = "ok" /\ NeedsRendering(t.url))))
       /\ t.res = "expanded" =>
            /\ t.rendered = "ok" => t.used = "rendered"
            /\ t.rendered # "ok" => (t.used = "static" /\ t.static = "ok")
       /\ t.res = "failed" => (t.static = "none" /\ t.rendered = "none" /\ t.used = "none")
       /\ t.res = "raised" => (t.used = "none" /\ "raise" \in {t.static, t.rendered})
       /\ (t.st = "done" /\ t.res # "skipped" /\ "raise" \notin {t.static, t.rendered})
            => t.res \in {"expanded", "failed"}

\* Two unreaped tasks: one whose static result needed rendering and whose
\* rendering returned None, handed on as its static result; one rendered
\* after its static fetch returned None.
C19_Witness ==
  \E i, j \in Live :
    /\ i # j
    /\ tasks[i].static = "ok" /\ tasks[i].rendered = "none" /\ tasks[i].used = "static"
    /\ tasks[j].static = "none" /\ tasks[j].rendered = "ok" /\ tasks[j].used = "rendered"

\* The tasks for which a page fetch was issued.
FetchIssued(i) ==
  \/ tasks[i].st \in {"fetching", "rendering"}
  \/ tasks[i].res \in {"expanded", "failed", "raised"}

\* The rules cached for the origin of url forbid it.
RulesForbid(url) ==
  LET base == site.origin[url]
  IN /\ base \in DOMAIN robots_cache
     /\ ~robots_cache[base].none
     /\ url \in robots_cache[base].disallow

\* The rules cached for the origin of url permit it.
RulesPermit(url) ==
  LET base == site.origin[url]
  IN /\ base \in DOMAIN robots_cache
     /\ ~robots_cache[base].none
     /\ url \notin robots_cache[base].disallow

\* What holds of a started task (gate is remembered until the task is reaped).
GateState(i) ==
  LET t == tasks[i]
  IN /\ (FetchIssued(i) /\ i \in Live) =>
          \/ (t.gate = "off" /\ ~respect_robots_txt)
          \/ (t.gate = "failopen" /\ respect_robots_txt
                /\ robots_reads[site.origin[t.url]] >= 1)
          \/ (t.gate = "rules" /\ respect_robots_txt /\ RulesPermit(t.url))
     /\ FetchIssued(i) => (~respect_robots_txt \/ robots_reads[site.origin[t.url]] >= 1)
     /\ t.res = "skipped" =>
          /\ respect_robots_txt
          /\ RulesForbid(t.url)
          /\ t.st \in {"done", "reaped"}
          /\ t.static = "pending" /\ t.rendered = "pending" /\ t.renders = 0
          /\ t.used = "none"
          /\ CallsBy(i) = {}
          /\ t.url \in visited
          /\ \A j \in DOMAIN tasks : j # i => tasks[j].url # t.url

\* The step in which task i is found disallowed.
SkipStep(i) ==
  /\ i \in DOMAIN tasks
  /\ tasks[i].st = "created"
  /\ tasks'[i].res = "skipped"

\* C17: a page fetch is issued for a task only with politeness off, after a
\* failed robots.txt read (fail-open) or when the cached rules permit its URL;
\* a task whose URL the rules forbid is Skipped: it makes no fetch, registers
\* nothing, and the step that skips it leaves the queue, the registry, the
\* semaphore and the visited set alone, so that its URL is never dispatched
\* again.
C17_PolitenessGate ==
  /\ [](\A i \in DOMAIN tasks : GateState(i))
  /\ [][\A i \in DOMAIN tasks :
          SkipStep(i) => UNCHANGED <<queue, visited, downloaded, persist_log, sem>>]_vars

\* A task skipped by the rules of its origin next to a task fetched after
\* the robots.txt of its origin could not be read.
C17_Witness ==
  \E i, j \in Live :
    /\ tasks[i].res = "skipped" /\ tasks[i].gate = "rules"
    /\ FetchIssued(j) /\ tasks[j].gate = "failopen"

\* Task i ends in this step.
EndStep(i) ==
  /\ i \in DOMAIN tasks
  /\ tasks[i].st \in {"created", "fetching", "rendering"}
  /\ tasks'[i].st = "done"

\* What the step ending task i must append: for a task that hands a result to
\* extraction at a depth below max_depth, one PageTask of the next depth per
\* extracted link not in the visited set, in the order of extraction.
ExpectedAppend(i) ==
  LET t     == tasks'[i]
      links == ResultLinks(t.url, t.used)
      fresh == SelectSeq(links, LAMBDA link : link \notin visited)
  IN IF t.res = "expanded" /\ t.depth + 1 <= max_depth
     THEN [n \in DOMAIN fresh |-> [url |-> fresh[n], depth |-> t.depth + 1]]
     ELSE <<>>

\* C18: the step that ends a task appends to the queue exactly the tasks
\* (L, d+1) for the extracted links L not in the visited set when the fetch
\* gave a result and d+1 <= max_depth, and nothing otherwise; no other step
\* of a task touches the queue.
C18_Expansion ==
  [][/\ \A i \in DOMAIN tasks : EndStep(i) => queue' = queue \o ExpectedAppend(i)
     /\ (RunSuspended /\ \A i \in DOMAIN tasks : ~EndStep(i)) => queue' = queue]_vars

\* A task below max_depth has ended with a link that is visited (left out) and
\* a link that is not (appended at the next depth).
C18_Witness ==
  \E i \in Live :
    /\ tasks[i].st = "done" /\ tasks[i].res = "expanded"
    /\ tasks[i].depth < max_depth
    /\ TaskLinks(i) \cap visited # {}
    /\ \E link \in TaskLinks(i) \ visited :
         /\ \E n \in DOMAIN queue : queue[n] = [url |-> link, depth |-> tasks[i].depth + 1]
         /\ \A n \in DOMAIN queue : queue[n].url \notin visited

\* A failure has been met: a fetch or a robots.txt read failed, or a
\* build_document call raised.
FailureMet == faults > 0 \/ \E n \in DOMAIN persist_log : ~persist_log[n].ok

\* The registry holds exactly the documents of the build_document calls that
\* returned, each made by a task that handed a result to extraction; a task
\* that was skipped, failed or raised has made no call.
RegistryFromSuccesses ==
  /\ \A u \in Urls :
       u \in DOMAIN downloaded <=>
         \E n \in DOMAIN persist_log : persist_log[n].url = u /\ persist_log[n].ok
  /\ \A n \in DOMAIN persist_log : tasks[persist_log[n].by].res = "expanded"
  /\ \A i \in DOMAIN tasks :
       tasks[i].res \in {"skipped", "failed", "raised"} => CallsBy(i) = {}

\* No step removes or replaces a registered document.
RegistryKept ==
  \A u \in DOMAIN downloaded : u \in DOMAIN downloaded' /\ downloaded'[u] = downloaded[u]

\* C16: a fetch that returns None or raises and a build_document call that
\* raises add nothing to the registry and remove nothing from it, and after
\* any failure run still drains the queue and the tasks in flight and returns.
C16_FailureIsolation ==
  /\ []RegistryFromSuccesses
  /\ [][RegistryKept]_vars
  /\ (FailureMet ~> (pc = "done" /\ queue = <<>> /\ InFlight = {}))

\* run has returned after a fetch raised and a build_document call raised;
\* documents were registered before the failed call and after it.
C16_Witness ==
  /\ pc = "done"
  /\ \E i \in DOMAIN tasks : tasks[i].res = "raised"
  /\ \E n \in DOMAIN persist_log :
       /\ ~persist_log[n].ok
       /\ \E m \in 1..(n - 1) : persist_log[m].ok
       /\ \E m \in (n + 1)..Len(persist_log) : persist_log[m].ok

\* Task i is suspended in a page fetch after this step and was not before.
FetchIssuedNow(i) ==
  /\ i \in DOMAIN tasks
  /\ tasks'[i].st \in {"fetching", "rendering"}
  /\ tasks'[i].st # tasks[i].st

\* C15 as stated: the browser context is open whenever run is at work, no
\* page fetch is issued unless it is open, and a browser context that was
\* opened is eventually closed and its Playwright stopped, whether run returns
\* or raises and also when the login flow fails.
C15_GuaranteedRelease ==
  /\ [](pc \in {"outer", "inner", "wait", "sleep"}
          => (fetcher.playwright = "started" /\ fetcher.context = "open"))
  /\ [][\A i \in DOMAIN tasks : FetchIssuedNow(i) => fetcher.context = "open"]_vars
  /\ (fetcher.context = "open") ~>
        (fetcher.context = "closed" /\ fetcher.playwright = "stopped")

\* C21 as stated: every URL of the visited set carries no fragment, and no
\* two dispatched URLs differ only by their fragment.
C21_VisitedNormalized ==
  /\ \A u \in visited : Normalize(UrlOf(u)) = UrlOf(u)
  /\ \A i, j \in DOMAIN tasks :
       Normalize(UrlOf(tasks[i].url)) = Normalize(UrlOf(tasks[j].url)) => i = j

\* The href of element n of the probe resolved against the final URL, its
\* fragment dropped.
Resolved(n) == [UrlJoin(probe.final_url, probe.elements[n].href) EXCEPT !.frag = FALSE]

\* Element n is an anchor whose href is to be yielded.
Qualifies(n) ==
  /\ probe.elements[n].name = "a"
  /\ probe.elements[n].href.kind \notin {"absent", "mailto", "javascript"}
  /\ Resolved(n).host = SeedHost

\* The position of the first anchor yielding url.
FirstAnchor(url) ==
  CHOOSE n \in DOMAIN probe.elements :
    /\ Qualifies(n) /\ Resolved(n) = url
    /\ \A m \in 1..(n - 1) : ~(Qualifies(m) /\ Resolved(m) = url)

\* C22: _extract_links yields exactly the resolved, fragment-free hrefs of the
\* anchors that are not mailto:/javascript: and whose host is the seed's,
\* each once, in the order of their first occurrence.
C22_LinkContract ==
  answer.kind = "extract" =>
    /\ \A k \in DOMAIN answer.links :
         \E n \in DOMAIN probe.elements : Qualifies(n) /\ Resolved(n) = answer.links[k]
    /\ \A n \in DOMAIN probe.elements :
         Qualifies(n) => \E k \in DOMAIN answer.links : answer.links[k] = Resolved(n)
    /\ \A k, l \in DOMAIN answer.links :
         k < l => /\ answer.links[k] # answer.links[l]
                  /\ FirstAnchor(answer.links[k]) < FirstAnchor(answer.links[l])

\* Two links were yielded in order although three anchors qualify, two of
\* them differing by a fragment only.
C22_Witness ==
  /\ answer.kind = "extract"
  /\ Len(answer.links) = 2
  /\ Cardinality({n \in DOMAIN probe.elements : Qualifies(n)}) = 3

\* run is where it started: nothing dispatched, nothing fetched, not returned.
NothingDone ==
  /\ queue = <<PageTask(site.seed, 0)>>
  /\ visited = {}
  /\ tasks = <<>>
  /\ InFlight = {}
  /\ sem = 0
  /\ downloaded = <<>> /\ persist_log = <<>>
  /\ robots_cache = <<>> /\ faults = 0
  /\ pc \in {"outer", "inner", "sleep"}

\* C23: with concurrency = 0 run never dispatches the seed, never fetches and
\* never returns; it sleeps and tests the loop condition again, for ever.
C23_ZeroConcurrency ==
  /\ [](concurrency = 0 => NothingDone)
  /\ (concurrency = 0 => ([]<>(pc = "sleep") /\ []<>(pc = "outer")))

\* The limit is 0 and run is in asyncio.sleep with the seed still queued.
C23_Witness ==
  /\ concurrency = 0
  /\ pc = "sleep"
  /\ queue # <<>>

\* The elements of the probe that _extract_pdfs takes as a reference to the
\* document url, by position in the document.
DomHits(url) ==
  {n \in DOMAIN probe.elements :
     LET tag == probe.elements[n]
     IN /\ tag.name \in {"a", "iframe", "embed", "object"}
        /\ Truthy(UrlAttr(tag))
        /\ Normalize(UrlJoin(probe.final_url, UrlAttr(tag))) = url
        /\ (EndsWithPdf(url) \/ tag.type = "application/pdf")}

DetectedUrls == {probe.detected_pdfs[n] : n \in DOMAIN probe.detected_pdfs}

\* C20: _extract_pdfs lists each document URL once; a network-observed URL
\* carries the network label even when elements resolve to it; otherwise the
\* context is that of the first element in document order resolving to it.
C20_DocumentMerge ==
  answer.kind = "extract" =>
    /\ \A m, n \in DOMAIN answer.pdfs : answer.pdfs[m].url = answer.pdfs[n].url => m = n
    /\ \A n \in DOMAIN answer.pdfs :
         LET item == answer.pdfs[n]
         IN IF item.url \in DetectedUrls THEN item.context = NetworkContext
            ELSE /\ DomHits(item.url) # {}
                 /\ item.context = DescribeContext(probe.elements[MinOf(DomHits(item.url))])
    /\ \A url \in DetectedUrls : HasKey(answer.pdfs, url)

\* The observed document is also referenced by an element with its own text,
\* and two elements with different contexts resolve to another document.
C20_Witness ==
  /\ answer.kind = "extract"
  /\ \E url \in DetectedUrls, n \in DOMAIN probe.elements :
       n \in DomHits(url) /\ probe.elements[n].text # ""
  /\ \E k \in DOMAIN answer.pdfs :
       /\ answer.pdfs[k].url \notin DetectedUrls
       /\ \E m, n \in DomHits(answer.pdfs[k].url) :
            m < n /\ DescribeContext(probe.elements[m]) # DescribeContext(probe.elements[n])
====
